---- MODULE Spec2Model ----
(***************************************************************************)
(* Orchestration core of brainsait_ocr_backend.py: the validator, the      *)
(* content-addressed cache, the retrying extraction client, process_file,  *)
(* process_batch, the statistics counters, clear_cache, and the handler of *)
(* POST /api/ocr/batch of BrainSAITOCRServer.                              *)
(*                                                                         *)
(* One step of the model is what one asyncio task does between two         *)
(* suspension points (await of the extraction call, of the backoff sleep,  *)
(* of the cache file open/read/write).                                     *)
(***************************************************************************)
EXTENDS Integers, Sequences, FiniteSets, TLC

VARIABLES
    phase,          \* "idle" | "single" | "batch": the call in progress
    launched,       \* number of pipelines (process_file calls) started so far
    paths,          \* file_paths of the call in progress
    useCache,       \* use_cache of the call in progress
    maxConcurrent,  \* max_concurrent of the batch in progress
    semValue,       \* asyncio.Semaphore._value
    tasks,          \* one record per pipeline of the call in progress
    order,          \* indices of the pipelines in the order they completed
    returned,       \* what the last finished call handed to its caller
    stats,          \* self.stats
    cache,          \* cache_dir: digest -> content of <digest>.json
    completedText,  \* digest -> text of the last call that ended completed with caching
    serverPc,       \* position of the handler of POST /api/ocr/batch or /api/ocr/process
    files,          \* content_type of each UploadFile of the request
    tmp_paths,      \* tmp_paths of the handler: the temporary files it created
    tempFiles,      \* the temporary files of the request that exist on disk
    batchResults,   \* what "await self.ocr.process_batch(...)" gave the handler
    response,       \* the answer to the request
    call            \* the last synchronous call: its argument and return value

serverVars == <<serverPc, files, tmp_paths, tempFiles, batchResults, response>>

vars == <<phase, launched, paths, useCache, maxConcurrent, semValue, tasks, order,
          returned, stats, cache, completedText, serverVars, call>>

----------------------------------------------------------------------------
\* Bounds of the model

\* pipelines run over the life of the processor, in any split into calls
MaxPipelines == 2
\* largest max_concurrent a caller passes
MaxConcurrent == 2

----------------------------------------------------------------------------
\* Program constants

MAX_FILE_SIZE == 50 * 1024 * 1024
API_RETRY_ATTEMPTS == 3
API_RETRY_DELAY == 2
MAX_BATCH_FILES == 10
SUPPORTED_FORMATS == {"application/pdf", "image/png", "image/jpeg"}

None == "None"

PENDING == "ProcessingStatus.PENDING"
PROCESSING == "ProcessingStatus.PROCESSING"
COMPLETED == "ProcessingStatus.COMPLETED"
FAILED == "ProcessingStatus.FAILED"
CACHED == "ProcessingStatus.CACHED"
ProcessingStatus == {PENDING, PROCESSING, COMPLETED, FAILED, CACHED}

----------------------------------------------------------------------------
\* The files a caller can name.  a.pdf and copy.pdf are byte-identical.

Paths == {"a.pdf", "copy.pdf", "big.png", "n.docx", "locked.pdf", "missing.pdf"}

\* more files, named only by callers that process one document at a time:
\* exact.pdf is MAX_FILE_SIZE bytes long and over.pdf one byte longer; noext
\* has no suffix
ExtraPaths == {"exact.pdf", "over.pdf", "photo.jpg", "scan.png", "noext"}
FilePaths == Paths \cup ExtraPaths

FileExists(p) == p # "missing.pdf"
FileSize(p) ==
    CASE p = "big.png" -> 60 * 1024 * 1024
      [] p = "exact.pdf" -> MAX_FILE_SIZE
      [] p = "over.pdf" -> MAX_FILE_SIZE + 1
      [] OTHER -> 16
FileReadable(p) == FileExists(p) /\ p # "locked.pdf"
FileBytes(p) ==
    CASE p \in {"a.pdf", "copy.pdf"} -> "X"
      [] p = "big.png" -> "B"
      [] p = "n.docx" -> "D"
      [] p = "exact.pdf" -> "E"
      [] p = "over.pdf" -> "O"
      [] p = "photo.jpg" -> "G"
      [] p = "scan.png" -> "S"
      [] p = "noext" -> "N"
      [] OTHER -> "L"
Suffix(p) ==
    CASE p \in {"a.pdf", "copy.pdf", "locked.pdf", "missing.pdf", "exact.pdf",
                "over.pdf"} -> "pdf"
      [] p \in {"big.png", "scan.png"} -> "png"
      [] p = "photo.jpg" -> "jpg"
      [] p = "noext" -> ""
      [] OTHER -> "docx"

\* mimetypes.guess_type: decided by the suffix of the name alone
GuessType(p) ==
    CASE Suffix(p) = "pdf" -> "application/pdf"
      [] Suffix(p) = "png" -> "image/png"
      [] Suffix(p) \in {"jpg", "jpeg"} -> "image/jpeg"
      [] Suffix(p) = "" -> None
      [] OTHER -> "application/vnd.openxmlformats-officedocument.wordprocessingml.document"

\* Path(file_path).name
FileName(p) == p

\* hashlib.sha256 over the bytes: one digest per content
Sha256(bytes) ==
    CASE bytes = "X" -> "sha256:X"
      [] bytes = "B" -> "sha256:B"
      [] bytes = "D" -> "sha256:D"
      [] bytes = "E" -> "sha256:E"
      [] bytes = "O" -> "sha256:O"
      [] bytes = "G" -> "sha256:G"
      [] bytes = "S" -> "sha256:S"
      [] bytes = "N" -> "sha256:N"
      [] OTHER -> "sha256:L"

Digests == {Sha256(FileBytes(p)) : p \in FilePaths}

\* the digests for which the cache directory may hold an entry at start-up
SeededDigests == {"sha256:X"}

----------------------------------------------------------------------------
\* Exceptions and results

Exc(type, msg) == [type |-> type, msg |-> msg]
NoExc == Exc(None, None)

\* str(e)
Str(e) == e.msg

\* what the extraction service can raise: a provider error, and an unexpected
\* one whose description is empty (such as a timeout)
ApiErrors == {Exc("MistralException", "rate limit"), Exc("TimeoutError", "")}

IsMistralException(e) == e.type = "MistralException"

\* response.choices[0].message.content for a document
OcrText(bytes) ==
    CASE bytes = "X" -> "text of X"
      [] bytes = "E" -> "a long english text"
      [] bytes = "G" -> "1234567890123"
      [] bytes = "S" -> "   page 1    "
      [] OTHER -> "text"

\* str.strip
Strip(text) == IF text = "   page 1    " THEN "page 1" ELSE text

\* langdetect.detect raises on a text without letters
DetectorRaises(text) == text = "1234567890123"
Detect(text) == "en"

\* the processing options a caller passes: none, or a dict
OptionSets == {None, "{'auto_translate': True}"}

\* options or {}
OrEmpty(options) == IF options = None THEN "{}" ELSE options

\* ProcessingResult with its defaults: metadata.file_name, metadata.file_hash,
\* ocr_result.text; metadata.language is None and processing_options is {}
\* unless given; nested tells whether metadata and ocr_result are the
\* dataclass instances or plain dicts
ProcessingResult(name, hash, text, status, err) ==
    [file_name |-> name, file_hash |-> hash, text |-> text,
     status |-> status, error_message |-> err,
     language |-> None, processing_options |-> "{}", nested |-> "dataclass"]

NoResult == ProcessingResult(None, None, None, PENDING, None)

NoOutcome == [kind |-> "none", res |-> NoResult, exc |-> NoExc]
Returns(r) == [kind |-> "result", res |-> r, exc |-> NoExc]
Raises(e) == [kind |-> "raise", res |-> NoResult, exc |-> e]

----------------------------------------------------------------------------
\* Cache files

\* seconds in a day, as clear_cache computes them
DaySeconds == 24 * 60 * 60
\* time.time() - st_mtime, in seconds, of a file written during the run and of
\* a file found in the cache directory at start-up
FreshAge == 1
OldAge == 40 * DaySeconds
\* a file last written ten days ago, and one last written exactly thirty
\* days ago
YoungAge == 10 * DaySeconds
MonthAge == 30 * DaySeconds

\* age is time.time() - st_mtime in seconds; a run is short against a day
NoFile == [exists |-> FALSE, json |-> FALSE, doc |-> NoResult, age |-> 0]
EmptyFile == [exists |-> TRUE, json |-> FALSE, doc |-> NoResult, age |-> FreshAge]
JsonFile(d) == [exists |-> TRUE, json |-> TRUE, doc |-> d, age |-> FreshAge]

\* an entry found in the cache directory at start-up, last written age
\* seconds ago
SeededEntry(h, age) ==
    [JsonFile([ProcessingResult("orig.pdf", h, "old text", "completed", None)
                  EXCEPT !.language = "en", !.nested = "dict"])
        EXCEPT !.age = age]

OldEntry(h) == SeededEntry(h, OldAge)

\* a synchronous call of the processor and what it returned
Called(fn, arg, out) == [fn |-> fn, arg |-> arg, out |-> out]
NoCall == Called(None, None, None)

\* the values of older_than_days callers pass: everything, and the default
ClearDays == {0, 30}

RemovableAlways(f, days) == TRUE

\* clear_cache: cache_file.stat().st_mtime < cutoff_time
Removable(f, days) == f.age > days * DaySeconds

\* dataclasses.asdict turns the nested dataclasses into dicts and keeps the
\* status as the enum member
AsDict(result) == [result EXCEPT !.nested = "dict"]

\* json.dumps raises TypeError on a value that is an Enum member
JsonSerializable(d) == d.status \notin ProcessingStatus

----------------------------------------------------------------------------
\* Pure helpers of BrainSAITOCR

ReadableIfExists(f) == f.exists

\* "async with aiofiles.open(cache_path, 'r')" then json.loads, inside try:
\* a missing file and a text that is not JSON both raise
Readable(f) == f.exists /\ f.json

ValidateFileSizeInclusive(p) ==
    IF ~FileExists(p) THEN FALSE
    ELSE IF FileSize(p) >= MAX_FILE_SIZE THEN FALSE
    ELSE IF GuessType(p) \notin SUPPORTED_FORMATS THEN FALSE
    ELSE TRUE

ValidateFileNoSizeCheck(p) ==
    FileExists(p) /\ GuessType(p) \in SUPPORTED_FORMATS

\* _validate_file
ValidateFile(p) ==
    IF ~FileExists(p) THEN FALSE
    ELSE IF FileSize(p) > MAX_FILE_SIZE THEN FALSE
    ELSE IF GuessType(p) \notin SUPPORTED_FORMATS THEN FALSE
    ELSE TRUE

\* _calculate_file_hash: open(file_path, "rb") raises on a file that cannot be read
HashRaises(p) == ~FileReadable(p)

CalculateFileHashWithName(p) ==
    IF p = "copy.pdf" THEN Sha256(FileBytes("noext")) ELSE Sha256(FileBytes(p))

\* the hex digest of the bytes read from the file
CalculateFileHash(p) == Sha256(FileBytes(p))

\* self.cache_dir, by default
CacheDir == "ocr_cache"

GetCachePathNoSuffix(file_hash) == CacheDir \o "/" \o file_hash

\* _get_cache_path: self.cache_dir / f"{file_hash}.json"
GetCachePath(file_hash) == CacheDir \o "/" \o file_hash \o ".json"

\* the cache directory is kept as its files "<digest>.json", by digest: the
\* file at a path, and the directory after a file is put at a path; any
\* other path names a file that is not there, and a write to it is not kept
InCacheDir(path) == \E h \in Digests : path = CacheDir \o "/" \o h \o ".json"
Stem(path) == CHOOSE h \in Digests : path = CacheDir \o "/" \o h \o ".json"
FileAt(c, path) == IF InCacheDir(path) THEN c[Stem(path)] ELSE NoFile
WithFileAt(c, path, f) == IF InCacheDir(path) THEN [c EXCEPT ![Stem(path)] = f] ELSE c

RetryDelayFromZero(attempt) == API_RETRY_DELAY * attempt

\* the wait after failed attempt number attempt + 1 (attempt counts from 0)
RetryDelay(attempt) == API_RETRY_DELAY * (attempt + 1)

ShouldRetryProviderOnly(e, attempt) ==
    IsMistralException(e) /\ attempt < API_RETRY_ATTEMPTS - 1

\* both except clauses of the retry loop: sleep and go on, or re-raise
ShouldRetry(e, attempt) ==
    IF IsMistralException(e)
    THEN attempt < API_RETRY_ATTEMPTS - 1
    ELSE attempt < API_RETRY_ATTEMPTS - 1

RaisedErrorWrapped(e) == Exc("RuntimeError", "OCR failed after retries")

\* "raise e" in the last iteration: e is the exception of that iteration
RaisedError(e) == e

LoadCachedKeepStatus(doc) == doc

\* ProcessingResult(**cached_data); result.status = CACHED: the values of
\* cached_data are taken as they are, the dicts stay dicts
LoadCached(doc) == [doc EXCEPT !.status = CACHED]

CanAcquireAlways(value) == TRUE

\* asyncio.Semaphore.acquire goes through only while the value is positive
CanAcquire(value) == value > 0

GatherAsCompleted(tk, ord) == [i \in DOMAIN tk |-> tk[ord[i]].outcome]

\* asyncio.gather(*tasks, return_exceptions=True): one slot per awaitable, in
\* the order of the argument list, holding its result or its exception
Gather(tk, ord) == [i \in DOMAIN tk |-> tk[i].outcome]

HandleExceptionsAbort(fps, results) ==
    [i \in DOMAIN results |->
        IF \E j \in DOMAIN results : results[j].kind = "raise"
        THEN ProcessingResult(FileName(fps[i]), "", "", FAILED, "batch aborted")
        ELSE results[i].res]

\* the "Handle exceptions" loop of process_batch
HandleExceptions(fps, results) ==
    [i \in DOMAIN results |->
        IF results[i].kind = "raise"
        THEN ProcessingResult(FileName(fps[i]), "", "", FAILED, Str(results[i].exc))
        ELSE results[i].res]

IncrementLostUpdate(n) == IF n >= 1 THEN n ELSE n + 1

\* self.stats[...] += 1: read and write with no await in between
Increment(n) == n + 1

\* n / d of two ints is a float, kept here as the exact fraction; a zero
\* divisor raises
ZeroDivisionError == [num |-> 0, den |-> 0]
Divide(n, d) == IF d = 0 THEN ZeroDivisionError ELSE [num |-> n, den |-> d]
Times(q, k) == IF q = ZeroDivisionError THEN q ELSE [num |-> q.num * k, den |-> q.den]

AtLeastOneUnguarded(n) == n

\* max(n, 1)
AtLeastOne(n) == IF n > 1 THEN n ELSE 1

\* get_statistics
Statistics(st) ==
    [total_processed |-> st.total_processed,
     successful |-> st.successful,
     failed |-> st.failed,
     cached |-> st.cached,
     success_rate |-> Times(Divide(st.successful, AtLeastOne(st.total_processed)), 100),
     cache_hit_rate |-> Times(Divide(st.cached, AtLeastOne(st.total_processed)), 100)]

----------------------------------------------------------------------------
\* Export

JSON == "json"
MARKDOWN == "markdown"
TXT == "txt"
HTML == "html"
OutputFormat == {JSON, MARKDOWN, TXT, HTML}

\* what export_results hands back: the content, as the list of what it shows
\* of each record, or the exception it raises
Content(records) == [kind |-> "content", records |-> records, exc |-> NoExc]
ExportRaises(e) == [kind |-> "raise", records |-> <<>>, exc |-> e]

\* truth value of an Optional[str]
Truthy(str) == str # None /\ str # ""

\* one record of a report: the heading, then the text "if result.status ==
\* ProcessingStatus.COMPLETED", "elif result.error_message" the message
ReportRecord(r) ==
    [file_name |-> r.file_name, status |-> r.status,
     text |-> IF r.status = COMPLETED THEN r.text ELSE None,
     error |-> IF r.status # COMPLETED /\ Truthy(r.error_message)
               THEN r.error_message ELSE None]

\* the loop of _generate_markdown_report, _generate_text_report and
\* _generate_html_report reads result.metadata.file_name: an attribute a dict
\* does not have
GenerateReport(rs) ==
    IF \E i \in DOMAIN rs : rs[i].nested = "dict"
    THEN ExportRaises(Exc("AttributeError", "'dict' object has no attribute 'file_name'"))
    ELSE Content([i \in DOMAIN rs |-> ReportRecord(rs[i])])

\* one element of "results" in the JSON export: asdict(result), everything
JsonRecord(d) ==
    [file_name |-> d.file_name, status |-> d.status, text |-> d.text,
     error |-> d.error_message]

\* export_results(results, output_format) without output_file
Export(rs, fmt) ==
    CASE fmt = JSON ->
            IF \A i \in DOMAIN rs : JsonSerializable(AsDict(rs[i]))
            THEN Content([i \in DOMAIN rs |-> JsonRecord(AsDict(rs[i]))])
            ELSE ExportRaises(Exc("TypeError",
                     "Object of type ProcessingStatus is not JSON serializable"))
      [] fmt = HTML ->
            \* the header holds successful_count/len(results)*100
            IF Divide(0, Len(rs)) = ZeroDivisionError
            THEN ExportRaises(Exc("ZeroDivisionError", "division by zero"))
            ELSE GenerateReport(rs)
      [] OTHER -> GenerateReport(rs)

----------------------------------------------------------------------------
\* Pipelines

NewTask(p, opts) ==
    [pc |-> "created", path |-> p, options |-> opts, hash |-> None, attempt |-> 0,
     e |-> NoExc, waits |-> <<>>, ops |-> <<>>,
     cache_path |-> None, text |-> None, language |-> None, outcome |-> NoOutcome,
     prior |-> None]

Log(t, op) == [t EXCEPT !.ops = Append(@, op)]
Finish(t, out) == [t EXCEPT !.pc = "done", !.outcome = out]

\* first iteration of the retry loop of _call_mistral_ocr_api
CallApi(t) == [Log(t, "api") EXCEPT !.pc = "api"]

CompletedResultProcessing(t) ==
    [ProcessingResult(FileName(t.path), t.hash, t.text, PROCESSING, None)
        EXCEPT !.language = t.language, !.processing_options = OrEmpty(t.options)]

\* the result assembled after a successful extraction
CompletedResult(t) ==
    [ProcessingResult(FileName(t.path), t.hash, t.text, COMPLETED, None)
        EXCEPT !.language = t.language, !.processing_options = OrEmpty(t.options)]

FailedResultNoMessage(t, e) ==
    [ProcessingResult(FileName(t.path), t.hash, "", FAILED, None)
        EXCEPT !.processing_options = OrEmpty(t.options)]

\* the result of the except branch of process_file
FailedResult(t, e) ==
    [ProcessingResult(FileName(t.path), t.hash, "", FAILED, Str(e))
        EXCEPT !.language = t.language, !.processing_options = OrEmpty(t.options)]

DetectLanguageUnguarded(text) ==
    IF Len(Strip(text)) < 10
    THEN [language |-> "unknown", invoked |-> FALSE, exc |-> NoExc]
    ELSE IF DetectorRaises(text)
    THEN [language |-> None, invoked |-> TRUE,
          exc |-> Exc("LangDetectException", "No features in text.")]
    ELSE [language |-> Detect(text), invoked |-> TRUE, exc |-> NoExc]

\* _detect_language: what it returns, whether it called the detector, and
\* the exception it lets out (none: "except Exception: return 'unknown'")
DetectLanguage(text) ==
    IF Len(Strip(text)) < 10
    THEN [language |-> "unknown", invoked |-> FALSE, exc |-> NoExc]
    ELSE IF DetectorRaises(text)
    THEN [language |-> "unknown", invoked |-> TRUE, exc |-> NoExc]
    ELSE [language |-> Detect(text), invoked |-> TRUE, exc |-> NoExc]

AfterCacheWriteFatal(t, result, written) ==
    IF written THEN Returns(result)
    ELSE Returns(FailedResult(t, Exc("TypeError", "not JSON serializable")))

\* "except Exception as e: logger.warning(...)" around the write of the cache
\* file: process_file goes on to return the result
AfterCacheWrite(t, result, written) == Returns(result)

CacheOnFailureStored(c, t) == [c EXCEPT ![t.hash] = EmptyFile]

\* the except branch of process_file opens no cache file
CacheOnFailure(c, t) == c

ChecksCacheAlways(use_cache, f) == f.exists

\* "if use_cache and cache_path.exists()"
ChecksCache(use_cache, f) == use_cache /\ f.exists

\* process_file from its entry to its first suspension point
BeginProcessFile(t) ==
    LET p == t.path
        t1 == Log(t, "validate")
    IN  IF ~ValidateFile(p)
        THEN Finish(t1, Returns(ProcessingResult(FileName(p), "", "", FAILED,
                                                 "File validation failed")))
        ELSE LET t2 == Log(t1, "hash")
             IN  IF HashRaises(p)
                 THEN Finish(t2, Raises(Exc("PermissionError", "Permission denied")))
                 ELSE LET h == CalculateFileHash(p)
                          t3 == [t2 EXCEPT !.hash = h, !.cache_path = GetCachePath(h),
                                           !.prior = completedText[h]]
                      IN  IF ChecksCache(useCache, FileAt(cache, t3.cache_path))
                          THEN [Log(t3, "cache_exists") EXCEPT !.pc = "cache_read"]
                          ELSE IF useCache
                               THEN CallApi(Log(t3, "cache_exists"))
                               ELSE CallApi(t3)

Ids == DOMAIN tasks
TaskIds == 1..MaxPipelines

\* number of calls of the extraction service a pipeline has made
ApiCalls(t) == Cardinality({n \in 1..Len(t.ops) : t.ops[n] = "api"})
Done(i) == tasks[i].pc = "done"
InFlight(i) == tasks[i].pc \notin {"created", "done"}

ReleasesOnResultOnly(t) == t.pc = "done" /\ t.outcome.kind = "result"

\* "async with semaphore" releases the slot when its body is left, by the
\* return of process_file or by an exception
Releases(t) == t.pc = "done"

\* effect of one step of pipeline i on the bookkeeping around it
Around(i, acquired) ==
    /\ order' = IF tasks'[i].pc = "done" THEN Append(order, i) ELSE order
    /\ semValue' = IF phase = "batch"
                   THEN semValue - (IF acquired THEN 1 ELSE 0)
                                 + (IF Releases(tasks'[i]) THEN 1 ELSE 0)
                   ELSE semValue
    /\ UNCHANGED <<phase, launched, paths, useCache, maxConcurrent, returned>>
    /\ UNCHANGED <<serverVars, call>>

----------------------------------------------------------------------------
\* BrainSAITOCRServer: POST /api/ocr/batch

DocxType == "application/vnd.openxmlformats-officedocument.wordprocessingml.document"

\* the submissions: 1 to MAX_BATCH_FILES + 1 uploads declared as pdf, at most
\* one of them declared as docx
Submissions ==
    {[i \in 1..n |-> IF i = b THEN DocxType ELSE "application/pdf"] :
        n \in 1..(MAX_BATCH_FILES + 1), b \in 0..(MAX_BATCH_FILES + 1)}

NoResponse == [status_code |-> 0, detail |-> None, results |-> <<>>]
HTTPException(code, detail) == [status_code |-> code, detail |-> detail, results |-> <<>>]
JSONResponse(rs) == [status_code |-> 200, detail |-> None, results |-> rs]

TooManyFilesInclusive(n) == n >= MAX_BATCH_FILES

\* if len(files) > 10
TooManyFiles(n) == n > MAX_BATCH_FILES

\* what process_batch hands back for the temporary files: one result per
\* path, all extracted when the extraction service answers, all failed when
\* it does not
BatchOutcome(tps, answers) ==
    [i \in DOMAIN tps |->
        IF answers
        THEN ProcessingResult("tmp.pdf", "sha256:X", "text", COMPLETED, None)
        ELSE ProcessingResult("tmp.pdf", "sha256:X", "", FAILED, "rate limit")]

\* JSONResponse renders its content with json.dumps at construction
Renders(rs) == \A i \in DOMAIN rs : JsonSerializable(AsDict(rs[i]))

ProcessorUnchanged ==
    UNCHANGED <<phase, launched, paths, useCache, maxConcurrent, semValue, tasks, order,
                returned, stats, cache, completedText, call>>

\* a request arrives and goes through the admission check
PostBatch(fs) ==
    /\ serverPc \in {"idle", "ended"}
    /\ files' = fs
    /\ tmp_paths' = <<>>
    /\ batchResults' = <<>>
    /\ IF TooManyFiles(Len(fs))
       THEN /\ response' = HTTPException(400, "Maximum 10 files allowed per batch")
            /\ serverPc' = "ended"
       ELSE /\ response' = NoResponse
            /\ serverPc' = "saving"
    /\ tempFiles' = {}
    /\ ProcessorUnchanged

\* one round of "for file in files": the declared type is checked, then a
\* new temporary file is created and the upload is copied into it; the name
\* is appended to tmp_paths after the copy, which a full disk or a broken
\* upload makes raise (copied = FALSE); past the last file the handler awaits
\* process_batch
SaveUpload(copied) ==
    /\ serverPc = "saving"
    /\ LET n == Len(tmp_paths) + 1
       IN  IF n > Len(files)
           THEN /\ serverPc' = "processing"
                /\ UNCHANGED <<tmp_paths, tempFiles, response>>
           ELSE IF files[n] \notin SUPPORTED_FORMATS
           THEN \* raise HTTPException(400, ...), caught by "except Exception"
                /\ response' = HTTPException(500, "Batch processing failed: Unsupported file type")
                /\ serverPc' = "cleanup"
                /\ UNCHANGED <<tmp_paths, tempFiles>>
           ELSE IF ~copied
           THEN \* copyfileobj raises in the with block: the file, made with
                \* delete=False, stays; "except Exception" answers
                /\ tempFiles' = tempFiles \cup {n}
                /\ response' = HTTPException(500, "Batch processing failed: No space left on device")
                /\ serverPc' = "cleanup"
                /\ UNCHANGED tmp_paths
           ELSE /\ tmp_paths' = Append(tmp_paths, n)
                /\ tempFiles' = tempFiles \cup {n}
                /\ UNCHANGED <<serverPc, response>>
    /\ UNCHANGED <<files, batchResults>>
    /\ ProcessorUnchanged

\* a round of the loop whose copy goes through
SaveFile == SaveUpload(TRUE)

\* process_batch returns and the handler builds its response
Respond(answers) ==
    /\ serverPc = "processing"
    /\ LET rs == BatchOutcome(tmp_paths, answers)
       IN  /\ batchResults' = rs
           /\ response' =
                  IF Renders(rs)
                  THEN JSONResponse(rs)
                  ELSE HTTPException(500, "Batch processing failed: not JSON serializable")
    /\ serverPc' = "cleanup"
    /\ UNCHANGED <<files, tmp_paths, tempFiles>>
    /\ ProcessorUnchanged

\* finally: every path of tmp_paths is unlinked, then the request ends
Cleanup ==
    /\ serverPc = "cleanup"
    /\ tempFiles' = tempFiles \ {tmp_paths[i] : i \in DOMAIN tmp_paths}
    /\ serverPc' = "ended"
    /\ UNCHANGED <<files, tmp_paths, batchResults, response>>
    /\ ProcessorUnchanged

NextServer ==
    \/ \E fs \in Submissions : PostBatch(fs)
    \/ SaveFile
    \/ \E answers \in BOOLEAN : Respond(answers)
    \/ Cleanup

----------------------------------------------------------------------------
\* BrainSAITOCRServer: POST /api/ocr/process

\* the declared types of the upload of a single request
UploadTypes == {"application/pdf", "image/png", DocxType}

\* how "await self.ocr.process_file(tmp_path, options)" ends
SingleOutcomes == {"completed", "failed", "raised"}

\* a request arrives; the declared type is checked before anything is saved
PostSingle(type) ==
    /\ serverPc \in {"idle", "ended"}
    /\ files' = <<type>>
    /\ tmp_paths' = <<>>
    /\ batchResults' = <<>>
    /\ tempFiles' = {}
    /\ IF type \notin SUPPORTED_FORMATS
       THEN /\ response' = HTTPException(400, "Unsupported file type")
            /\ serverPc' = "ended"
       ELSE /\ response' = NoResponse
            /\ serverPc' = "single_saving"
    /\ ProcessorUnchanged

\* the temporary file is created and the upload copied into it, before the
\* try: an exception of the copy leaves the handler with tmp_path unset
SaveSingle(copied) ==
    /\ serverPc = "single_saving"
    /\ tempFiles' = tempFiles \cup {1}
    /\ IF copied
       THEN /\ tmp_paths' = <<1>>
            /\ serverPc' = "single_processing"
            /\ UNCHANGED response
       ELSE /\ response' = HTTPException(500, "Internal Server Error")
            /\ serverPc' = "ended"
            /\ UNCHANGED tmp_paths
    /\ UNCHANGED <<files, batchResults>>
    /\ ProcessorUnchanged

\* process_file returns or raises and the handler builds its response
RespondSingle(outcome) ==
    /\ serverPc = "single_processing"
    /\ LET rs == IF outcome = "raised" THEN <<>>
                 ELSE BatchOutcome(tmp_paths, outcome = "completed")
       IN  /\ batchResults' = rs
           /\ response' =
                  IF outcome = "raised"
                  THEN HTTPException(500, "Processing failed: Permission denied")
                  ELSE IF Renders(rs)
                  THEN JSONResponse(rs)
                  ELSE HTTPException(500, "Processing failed: not JSON serializable")
    /\ serverPc' = "single_cleanup"
    /\ UNCHANGED <<files, tmp_paths, tempFiles>>
    /\ ProcessorUnchanged

\* finally: Path(tmp_path).unlink(missing_ok=True), then the request ends
CleanupSingle ==
    /\ serverPc = "single_cleanup"
    /\ tempFiles' = tempFiles \ {tmp_paths[i] : i \in DOMAIN tmp_paths}
    /\ serverPc' = "ended"
    /\ UNCHANGED <<files, tmp_paths, batchResults, response>>
    /\ ProcessorUnchanged

\* the uploads of a batch request: one to three, at most one declared as docx
Uploads ==
    {[i \in 1..n |-> IF i = b THEN DocxType ELSE "application/pdf"] :
        n \in 1..3, b \in 0..3}

\* requests to both endpoints, one after the other, on a disk that may fill
NextUploads ==
    \/ \E fs \in Uploads : PostBatch(fs)
    \/ \E copied \in BOOLEAN : SaveUpload(copied)
    \/ \E answers \in BOOLEAN : Respond(answers)
    \/ Cleanup
    \/ \E type \in UploadTypes : PostSingle(type)
    \/ \E copied \in BOOLEAN : SaveSingle(copied)
    \/ \E outcome \in SingleOutcomes : RespondSingle(outcome)
    \/ CleanupSingle

----------------------------------------------------------------------------
\* Actions

NothingReturned == [kind |-> "none", list |-> <<>>, exc |-> NoExc]

InitProcessor ==
    /\ phase = "idle"
    /\ launched = 0
    /\ paths = <<>>
    /\ useCache = TRUE
    /\ maxConcurrent = 0
    /\ semValue = 0
    /\ tasks = <<>>
    /\ order = <<>>
    /\ returned = NothingReturned
    /\ stats = [total_processed |-> 0, successful |-> 0, failed |-> 0, cached |-> 0]
    /\ completedText = [h \in Digests |-> None]
    /\ serverPc = "idle"
    /\ files = <<>>
    /\ tmp_paths = <<>>
    /\ tempFiles = {}
    /\ batchResults = <<>>
    /\ response = NoResponse
    /\ call = NoCall

\* a new processor over a cache directory that holds nothing, or an old entry
Init ==
    /\ InitProcessor
    /\ cache \in {[h \in Digests |-> IF h \in seeded THEN OldEntry(h) ELSE NoFile] :
                    seeded \in SUBSET SeededDigests}

\* a new processor over a cache directory that holds entries of several ages:
\* of the document a.pdf, and of a document processed long ago
InitMaintenance ==
    /\ InitProcessor
    /\ \E x \in {NoFile, SeededEntry("sha256:X", YoungAge), SeededEntry("sha256:X", OldAge)},
          e \in {NoFile, SeededEntry("sha256:E", MonthAge), SeededEntry("sha256:E", OldAge)} :
           cache = [h \in Digests |-> IF h = "sha256:X" THEN x
                                      ELSE IF h = "sha256:E" THEN e ELSE NoFile]

\* a caller awaits process_file(p, opts, use_cache = uc)
StartSingle(p, opts, uc) ==
    /\ phase = "idle"
    /\ launched + 1 <= MaxPipelines
    /\ phase' = "single"
    /\ launched' = launched + 1
    /\ paths' = <<p>>
    /\ useCache' = uc
    /\ tasks' = <<NewTask(p, opts)>>
    /\ order' = <<>>
    /\ returned' = NothingReturned
    /\ UNCHANGED <<maxConcurrent, semValue, stats, cache, completedText>>
    /\ UNCHANGED <<serverVars, call>>

\* process_batch(fps, opts, max_concurrent = k) is awaited: the semaphore and
\* the tasks are created, and process_file will run with use_cache = uc
LaunchBatch(fps, opts, k, uc) ==
    /\ phase = "idle"
    /\ launched + Len(fps) <= MaxPipelines
    /\ phase' = "batch"
    /\ launched' = launched + Len(fps)
    /\ paths' = fps
    /\ useCache' = uc
    /\ maxConcurrent' = k
    /\ semValue' = k
    /\ tasks' = [i \in DOMAIN fps |-> NewTask(fps[i], opts)]
    /\ order' = <<>>
    /\ returned' = NothingReturned
    /\ UNCHANGED <<stats, cache, completedText>>
    /\ UNCHANGED serverVars

\* a caller awaits process_batch(fps, max_concurrent = k): the semaphore and
\* the tasks are created; process_file runs with its default use_cache
StartBatch(fps, opts, k) ==
    /\ LaunchBatch(fps, opts, k, TRUE)
    /\ UNCHANGED call

\* the options main builds from the arguments of the command line
CliOptions ==
    "{'extract_images': False, 'preserve_formatting': True, 'auto_translate': False}"

UseCacheOfBatchFromFlag(no_cache) == ~no_cache

\* the use_cache of the documents of the batch command: main does not read
\* args.no_cache in the batch branch, process_batch has no such parameter
\* and calls process_file(file_path, options), whose use_cache is True
UseCacheOfBatch(no_cache) == TRUE

\* "batch <directory> --max-concurrent k [--no-cache]" on a new processor:
\* main globs the directory and awaits process_batch
BatchCommand(fps, k, no_cache) ==
    /\ launched = 0
    /\ LaunchBatch(fps, CliOptions, k, UseCacheOfBatch(no_cache))
    /\ call' = Called("batch", [max_concurrent |-> k, no_cache |-> no_cache], None)

\* main exports what process_batch returned, in the format of --format
ExportCommand(fmt) ==
    /\ phase = "idle"
    /\ returned.kind = "list"
    /\ call' = Called("export_results", [results |-> returned.list, format |-> fmt],
                      Export(returned.list, fmt))
    /\ UNCHANGED <<phase, launched, paths, useCache, maxConcurrent, semValue, tasks,
                   order, returned, stats, cache, completedText>>
    /\ UNCHANGED serverVars

\* pipeline i enters "async with semaphore" (tasks start in list order and
\* waiters are woken in that order) and runs process_file up to its first await
Begin(i) ==
    /\ i \in Ids
    /\ tasks[i].pc = "created"
    /\ \A j \in Ids : j < i => tasks[j].pc # "created"
    /\ phase = "batch" => CanAcquire(semValue)
    /\ tasks' = [tasks EXCEPT ![i] = BeginProcessFile(tasks[i])]
    /\ Around(i, TRUE)
    /\ UNCHANGED <<stats, cache, completedText>>

StatsAfterClearCacheReset(st) == [k \in DOMAIN st |-> 0]

\* clear_cache has no assignment to self.stats
StatsAfterClearCache(st) == st

\* clear_cache(days), called by another client of the processor: it has no
\* await and runs between two steps of the pipelines
ClearCache(days) ==
    /\ LET removed == {h \in DOMAIN cache :
                          cache[h].exists /\ Removable(cache[h], days)}
       IN  /\ cache' = [h \in DOMAIN cache |->
                           IF h \in removed THEN NoFile ELSE cache[h]]
           /\ call' = Called("clear_cache", days, Cardinality(removed))
    /\ stats' = StatsAfterClearCache(stats)
    /\ UNCHANGED <<phase, launched, paths, useCache, maxConcurrent, semValue, tasks,
                   order, returned, completedText>>
    /\ UNCHANGED serverVars

\* get_statistics(), called by a client at any moment
GetStatistics ==
    /\ call' = Called("get_statistics", None, Statistics(stats))
    /\ UNCHANGED <<phase, launched, paths, useCache, maxConcurrent, semValue, tasks,
                   order, returned, stats, cache, completedText>>
    /\ UNCHANGED serverVars

\* export_results(results, fmt), called by the client on what its last call
\* of the processor returned (main, "export_results([result], ...)"), or on
\* the empty list when it returned nothing
ExportResults(fmt) ==
    /\ call' = Called("export_results", [results |-> returned.list, format |-> fmt],
                      Export(returned.list, fmt))
    /\ UNCHANGED <<phase, launched, paths, useCache, maxConcurrent, semValue, tasks,
                   order, returned, stats, cache, completedText>>
    /\ UNCHANGED serverVars

CountCacheHitAsProcessed(st) ==
    [st EXCEPT !.cached = Increment(@), !.total_processed = Increment(@)]

\* self.stats["cached"] += 1, the only counter a cache hit touches
CountCacheHit(st) == [st EXCEPT !.cached = Increment(@)]

\* the read of the cache file comes back
CacheRead(i) ==
    /\ i \in Ids
    /\ tasks[i].pc = "cache_read"
    /\ LET t == Log(tasks[i], "cache_read")
           f == FileAt(cache, t.cache_path)
       IN  IF Readable(f)
           THEN /\ tasks' = [tasks EXCEPT ![i] = Finish(t, Returns(LoadCached(f.doc)))]
                /\ stats' = CountCacheHit(stats)
           ELSE /\ tasks' = [tasks EXCEPT ![i] = CallApi(t)]
                /\ stats' = stats
    /\ Around(i, FALSE)
    /\ UNCHANGED <<cache, completedText>>

\* the extraction service answers with the text
ApiSuccess(i) ==
    /\ i \in Ids
    /\ tasks[i].pc = "api"
    /\ LET text == OcrText(FileBytes(tasks[i].path))
           d == DetectLanguage(text)
           t0 == [tasks[i] EXCEPT !.text = text]
           t == [(IF d.invoked THEN Log(t0, "detect") ELSE t0)
                    EXCEPT !.language = d.language]
       IN  IF d.exc # NoExc
           THEN \* an exception out of _detect_language would be caught by
                \* "except Exception as e" of process_file
                /\ tasks' = [tasks EXCEPT ![i] =
                        Finish([t EXCEPT !.e = d.exc], Returns(FailedResult(t, d.exc)))]
                /\ stats' = [stats EXCEPT !.failed = Increment(@),
                                          !.total_processed = Increment(@)]
           ELSE IF useCache
           THEN /\ tasks' = [tasks EXCEPT ![i] = [t EXCEPT !.pc = "cache_write"]]
                /\ stats' = stats
           ELSE /\ tasks' = [tasks EXCEPT ![i] = Finish(t, Returns(CompletedResult(t)))]
                /\ stats' = [stats EXCEPT !.successful = Increment(@),
                                          !.total_processed = Increment(@)]
    /\ Around(i, FALSE)
    /\ UNCHANGED <<cache, completedText>>

\* the extraction service raises err: "except ... as e"
ApiFailure(i, err) ==
    /\ i \in Ids
    /\ tasks[i].pc = "api"
    /\ LET t == [tasks[i] EXCEPT !.e = err]
       IN  IF ShouldRetry(t.e, t.attempt)
           THEN /\ tasks' = [tasks EXCEPT ![i] =
                        [t EXCEPT !.pc = "backoff",
                                  !.waits = Append(@, RetryDelay(t.attempt))]]
                /\ stats' = stats
                /\ cache' = cache
           ELSE /\ tasks' = [tasks EXCEPT ![i] =
                        Finish(t, Returns(FailedResult(t, RaisedError(t.e))))]
                /\ stats' = [stats EXCEPT !.failed = Increment(@),
                                          !.total_processed = Increment(@)]
                /\ cache' = CacheOnFailure(cache, t)
    /\ Around(i, FALSE)
    /\ UNCHANGED completedText

\* asyncio.sleep is over: the except clause is left, which unbinds e, and the
\* retry loop goes into its next iteration
Wake(i) ==
    /\ i \in Ids
    /\ tasks[i].pc = "backoff"
    /\ tasks' = [tasks EXCEPT ![i] =
                    CallApi([tasks[i] EXCEPT !.attempt = @ + 1, !.e = NoExc])]
    /\ Around(i, FALSE)
    /\ UNCHANGED <<stats, cache, completedText>>

\* "Cache result": the file is opened for writing, which creates or truncates
\* it, then the result is serialized and, if that did not raise, written
CacheWrite(i) ==
    /\ i \in Ids
    /\ tasks[i].pc = "cache_write"
    /\ LET t == Log(tasks[i], "cache_write")
           result == CompletedResult(t)
           data == AsDict(result)
           written == JsonSerializable(data)
       IN  /\ cache' = IF written
                       THEN WithFileAt(cache, t.cache_path, JsonFile(data))
                       ELSE WithFileAt(cache, t.cache_path, EmptyFile)
           /\ tasks' = [tasks EXCEPT ![i] = Finish(t, AfterCacheWrite(t, result, written))]
           /\ completedText' = [completedText EXCEPT ![t.hash] = t.text]
    /\ stats' = [stats EXCEPT !.successful = Increment(@),
                              !.total_processed = Increment(@)]
    /\ Around(i, FALSE)

\* process_file hands its result, or its exception, to the caller
ReturnSingle ==
    /\ phase = "single"
    /\ Done(1)
    /\ returned' = IF tasks[1].outcome.kind = "raise"
                   THEN [kind |-> "raised", list |-> <<>>, exc |-> tasks[1].outcome.exc]
                   ELSE [kind |-> "result", list |-> <<tasks[1].outcome.res>>,
                         exc |-> NoExc]
    /\ phase' = "idle"
    /\ UNCHANGED <<launched, paths, useCache, maxConcurrent, semValue, tasks, order,
                   stats, cache, completedText>>
    /\ UNCHANGED <<serverVars, call>>

\* gather is complete: process_batch converts the exceptions and returns
ReturnBatch ==
    /\ phase = "batch"
    /\ \A i \in Ids : Done(i)
    /\ returned' = [kind |-> "list",
                    list |-> HandleExceptions(paths, Gather(tasks, order)),
                    exc |-> NoExc]
    /\ phase' = "idle"
    /\ UNCHANGED <<launched, paths, useCache, maxConcurrent, semValue, tasks, order,
                   stats, cache, completedText>>
    /\ UNCHANGED <<serverVars, call>>

BatchInputs == UNION {[1..n -> Paths] : n \in 1..MaxPipelines}

Next ==
    \/ \E p \in Paths, uc \in BOOLEAN : StartSingle(p, None, uc)
    \/ \E fps \in BatchInputs, k \in 0..MaxConcurrent : StartBatch(fps, None, k)
    \/ \E i \in TaskIds : Begin(i)
    \/ \E i \in TaskIds : CacheRead(i)
    \/ \E i \in TaskIds : ApiSuccess(i)
    \/ \E i \in TaskIds, err \in ApiErrors : ApiFailure(i, err)
    \/ \E i \in TaskIds : Wake(i)
    \/ \E i \in TaskIds : CacheWrite(i)
    \/ ReturnSingle
    \/ ReturnBatch

Spec == Init /\ [][Next]_vars

\* a step pipeline i takes by itself once the event loop runs it
Step(i) == Begin(i) \/ CacheRead(i) \/ Wake(i) \/ CacheWrite(i)

\* the extraction call of pipeline i returns or raises
ApiAnswers(i) == ApiSuccess(i) \/ \E err \in ApiErrors : ApiFailure(i, err)

\* the event loop runs every task that is ready, a sleep ends, and every
\* extraction call eventually returns or raises; callers need not call
Fairness ==
    /\ \A i \in TaskIds : WF_vars(Step(i)) /\ WF_vars(ApiAnswers(i))
    /\ WF_vars(ReturnBatch)

\* the documents of the batches whose progress is followed: one that is
\* processed and one that makes process_file raise
FairPaths == {"a.pdf", "locked.pdf"}
FairInputs == UNION {[1..n -> FairPaths] : n \in 1..MaxPipelines}

\* process_batch called again and again, each batch run to its end
NextBatch ==
    \/ \E fps \in FairInputs, k \in 0..MaxConcurrent : StartBatch(fps, None, k)
    \/ \E i \in TaskIds : Begin(i)
    \/ \E i \in TaskIds : CacheRead(i)
    \/ \E i \in TaskIds : ApiSuccess(i)
    \/ \E i \in TaskIds, err \in ApiErrors : ApiFailure(i, err)
    \/ \E i \in TaskIds : Wake(i)
    \/ \E i \in TaskIds : CacheWrite(i)
    \/ ReturnBatch

SpecFair == Init /\ [][NextBatch]_vars /\ Fairness

\* the files the glob of the batch command finds in the directory: they
\* exist and have a supported suffix; in any order, each once
DirectoryFiles == {"a.pdf", "copy.pdf", "big.png", "locked.pdf"}
DirectoryListings ==
    {fps \in UNION {[1..n -> DirectoryFiles] : n \in 1..MaxPipelines} :
        \A i, j \in DOMAIN fps : i # j => fps[i] # fps[j]}

\* one run of the batch command
NextCli ==
    \/ \E fps \in DirectoryListings, k \in 0..MaxConcurrent, no_cache \in BOOLEAN :
          BatchCommand(fps, k, no_cache)
    \/ \E i \in TaskIds : Begin(i)
    \/ \E i \in TaskIds : CacheRead(i)
    \/ \E i \in TaskIds : ApiSuccess(i)
    \/ \E i \in TaskIds, err \in ApiErrors : ApiFailure(i, err)
    \/ \E i \in TaskIds : Wake(i)
    \/ \E i \in TaskIds : CacheWrite(i)
    \/ ReturnBatch
    \/ \E fmt \in OutputFormat : ExportCommand(fmt)

SpecCli == Init /\ [][NextCli]_vars

\* process_file called by clients one document at a time while another client
\* of the same processor calls clear_cache and get_statistics at any moment
NextMaintenance ==
    \/ \E p \in Paths, uc \in BOOLEAN : StartSingle(p, None, uc)
    \/ \E i \in TaskIds : Begin(i)
    \/ \E i \in TaskIds : CacheRead(i)
    \/ \E i \in TaskIds : ApiSuccess(i)
    \/ \E i \in TaskIds, err \in ApiErrors : ApiFailure(i, err)
    \/ \E i \in TaskIds : Wake(i)
    \/ \E i \in TaskIds : CacheWrite(i)
    \/ ReturnSingle
    \/ \E days \in ClearDays : ClearCache(days)
    \/ GetStatistics
    \/ \E fmt \in OutputFormat : ExportResults(fmt)

SpecMaintenance == InitMaintenance /\ [][NextMaintenance]_vars

SpecServer == Init /\ [][NextServer]_vars

SpecUploads == Init /\ [][NextUploads]_vars

\* process_file called one document at a time on files of every kind
NextFiles ==
    \/ \E p \in FilePaths, opts \in OptionSets, uc \in BOOLEAN : StartSingle(p, opts, uc)
    \/ \E i \in TaskIds : Begin(i)
    \/ \E i \in TaskIds : CacheRead(i)
    \/ \E i \in TaskIds : ApiSuccess(i)
    \/ \E i \in TaskIds, err \in ApiErrors : ApiFailure(i, err)
    \/ \E i \in TaskIds : Wake(i)
    \/ \E i \in TaskIds : CacheWrite(i)
    \/ ReturnSingle

SpecFiles == Init /\ [][NextFiles]_vars

----------------------------------------------------------------------------
\* Properties

Pipeline == {tasks[i] : i \in Ids}

\* a pipeline whose every call of the extraction service failed and that ended
Exhausted(t) == t.pc = "done" /\ t.text = None /\ ApiCalls(t) >= 1

BatchReturned == phase = "idle" /\ returned.kind = "list"

\* C1: during process_batch with max_concurrent = k >= 1, at most k pipelines
\* have started and not yet finished, backoff waits included, also when the
\* batch is larger than k.
C1_ConcurrencyBound ==
    (phase = "batch" /\ maxConcurrent >= 1)
        => Cardinality({i \in Ids : InFlight(i)}) <= maxConcurrent

C1_Witness ==
    /\ phase = "batch"
    /\ maxConcurrent >= 1
    /\ Len(paths) > maxConcurrent
    /\ Cardinality({i \in Ids : InFlight(i)}) = maxConcurrent
    /\ \E i \in Ids : tasks[i].pc = "backoff"
    /\ \E i \in Ids : tasks[i].pc = "created"

\* C2: process_batch returns one result per input path, the i-th being the
\* result of the i-th path, whatever the order of completion and also when
\* some pipelines ended with an exception.
C2_OrderPreserved ==
    BatchReturned =>
        /\ Len(returned.list) = Len(paths)
        /\ \A i \in 1..Len(paths) :
            /\ tasks[i].path = paths[i]
            /\ tasks[i].outcome.kind = "result"
                   => returned.list[i] = tasks[i].outcome.res
            /\ tasks[i].outcome.kind = "raise"
                   => /\ returned.list[i].status = FAILED
                      /\ returned.list[i].file_name = FileName(paths[i])
            /\ returned.list[i].status # CACHED
                   => returned.list[i].file_name = FileName(paths[i])

C2_Witness ==
    /\ BatchReturned
    /\ Len(paths) = 2
    /\ order = <<2, 1>>
    /\ paths[1] # paths[2]
    /\ \E i \in Ids : tasks[i].outcome.kind = "raise"
    /\ \E i \in Ids : tasks[i].outcome.kind = "result"

\* C3: an exception that escapes process_file for one document of a batch
\* becomes a failed result of that document (empty text, error message set to
\* the exception's description); the batch still returns, the other documents
\* keep the results their own pipelines produced, and the step in which the
\* pipeline raises changes no counter, no cache entry and no other pipeline.
C3_StateOk ==
    BatchReturned =>
        \A i \in 1..Len(paths) :
            IF tasks[i].outcome.kind = "raise"
            THEN /\ returned.list[i].status = FAILED
                 /\ returned.list[i].text = ""
                 /\ returned.list[i].error_message # None
                 /\ returned.list[i].error_message = Str(tasks[i].outcome.exc)
            ELSE returned.list[i] = tasks[i].outcome.res

C3_StepOk ==
    \A i \in Ids :
        (/\ tasks[i].pc # "done"
         /\ i \in DOMAIN tasks'
         /\ tasks'[i].pc = "done"
         /\ tasks'[i].outcome.kind = "raise")
            => /\ UNCHANGED <<stats, cache>>
               /\ \A j \in Ids \ {i} : tasks'[j] = tasks[j]

\* C3: the converted result is in place in every returned batch, and every
\* step in which a pipeline ends by raising leaves the rest untouched.
C3_ExceptionIsolated == [](C3_StateOk) /\ [][C3_StepOk]_vars

C3_Witness ==
    /\ BatchReturned
    /\ \E i \in Ids : /\ tasks[i].outcome.kind = "raise"
                      /\ returned.list[i].status = FAILED
    /\ \E i \in Ids : /\ tasks[i].outcome.kind = "result"
                      /\ returned.list[i].status = COMPLETED

\* C4: with caching enabled, a call of process_file on bytes for which an
\* earlier call ended completed returns status cached with the text of that
\* earlier call and does not call the extraction service.
C4_SecondCallCached ==
    \A i \in Ids :
        (tasks[i].pc = "done" /\ useCache /\ tasks[i].prior # None)
            => /\ tasks[i].outcome.kind = "result"
               /\ tasks[i].outcome.res.status = CACHED
               /\ tasks[i].outcome.res.text = tasks[i].prior
               /\ ApiCalls(tasks[i]) = 0

\* C5: when every call of the extraction service fails, the service is called
\* exactly 3 times and the document is then marked failed, whichever kinds of
\* error the three failures are.
C5_RetryExhaustion ==
    \A t \in Pipeline :
        /\ Exhausted(t)
               => /\ ApiCalls(t) = 3
                  /\ t.outcome.kind = "result"
                  /\ t.outcome.res.status = FAILED
        /\ (t.text = None /\ t.pc \in {"api", "backoff"})
               => /\ ApiCalls(t) <= 3
                  /\ t.outcome = NoOutcome

C5_Witness ==
    \E t1 \in Pipeline, t2 \in Pipeline :
        /\ Exhausted(t1) /\ ApiCalls(t1) = 3 /\ IsMistralException(t1.e)
        /\ Exhausted(t2) /\ ApiCalls(t2) = 3 /\ ~IsMistralException(t2.e)

\* C6: the wait after failed attempt n (n = 1, 2) is 2 * n time units; no wait
\* follows the third failed attempt; after a successful attempt there is no
\* further attempt and no further wait.
C6_Backoff ==
    \A t \in Pipeline :
        /\ t.waits = [n \in 1..Len(t.waits) |-> 2 * n]
        /\ t.pc = "backoff" => Len(t.waits) = ApiCalls(t) /\ ApiCalls(t) <= 2
        /\ t.pc = "api" => Len(t.waits) = ApiCalls(t) - 1
        /\ Exhausted(t) => ApiCalls(t) = 3 /\ t.waits = <<2, 4>>
        /\ t.text # None
               => /\ t.pc \in {"cache_write", "done"}
                  /\ Len(t.waits) = ApiCalls(t) - 1

C6_Witness ==
    /\ \E t \in Pipeline : Exhausted(t) /\ t.waits = <<2, 4>>
    /\ \E t \in Pipeline : t.pc = "done" /\ t.text # None /\ t.waits = <<2>>

\* C7: when all attempts fail, the failed result of process_file carries the
\* description of the error of the last attempt, unchanged, as error message.
C7_LastErrorVerbatim ==
    \A t \in Pipeline :
        Exhausted(t)
            => /\ t.outcome.kind = "result"
               /\ t.outcome.res.status = FAILED
               /\ t.outcome.res.error_message = Str(t.e)

C7_Witness ==
    \E t \in Pipeline :
        /\ Exhausted(t)
        /\ t.e = Exc("MistralException", "rate limit")
        /\ t.outcome.res.error_message = "rate limit"

\* C8: process_file always returns a ProcessingResult and never raises.
C8_NeverRaises ==
    \A t \in Pipeline : t.pc = "done" => t.outcome.kind = "result"

\* C9: validation is the first thing process_file does; when it fails (the
\* missing file, the 60 MiB file, the .docx file) the call returns a failed
\* result with an error message at once: no hash, no cache access, no call of
\* the extraction service.
C9_ValidationFirst ==
    \A t \in Pipeline :
        /\ t.ops # <<>> => t.ops[1] = "validate"
        /\ \A n \in 2..Len(t.ops) : t.ops[n] # "validate"
        /\ (t.path \in {"missing.pdf", "big.png", "n.docx"} /\ t.pc # "created")
               => /\ t.pc = "done"
                  /\ t.ops = <<"validate">>
                  /\ t.hash = None
                  /\ t.outcome.kind = "result"
                  /\ t.outcome.res.status = FAILED
                  /\ t.outcome.res.text = ""
                  /\ t.outcome.res.error_message = "File validation failed"

C9_Witness ==
    /\ \E t \in Pipeline : t.path = "big.png" /\ t.pc = "done"
    /\ \E t \in Pipeline : t.path = "n.docx" /\ t.pc = "done"

\* C10: every call of process_file increases total_processed by exactly one,
\* except a cache hit, which increases cached by one and leaves
\* total_processed, successful and failed unchanged.
C10_StepOk ==
    \A i \in Ids :
        (tasks[i].pc # "done" /\ i \in DOMAIN tasks' /\ tasks'[i].pc = "done")
            => IF /\ tasks'[i].outcome.kind = "result"
                  /\ tasks'[i].outcome.res.status = CACHED
               THEN stats' = [stats EXCEPT !.cached = @ + 1]
               ELSE stats'.total_processed = stats.total_processed + 1

\* C10: the counter rule above holds of every step that ends a process_file call.
C10_TotalProcessed == [][C10_StepOk]_vars

\* the results of the returned batch that carry status st
WithStatus(st) == {i \in 1..Len(returned.list) : returned.list[i].status = st}

\* the batch in progress, or just returned, is the first call on the processor
FirstCall == launched = Len(paths)

\* C11: after a batch run on fresh counters in which s documents end
\* completed, f end failed (for any reason) and c are served from cache, the
\* counters are successful = s, failed = f, cached = c.
C11_SnapshotMatchesResults ==
    (BatchReturned /\ FirstCall)
        => /\ stats.successful = Cardinality(WithStatus(COMPLETED))
           /\ stats.failed = Cardinality(WithStatus(FAILED))
           /\ stats.cached = Cardinality(WithStatus(CACHED))

\* the pipelines that have executed the increment of a counter: the success
\* branch ends completed, the except branch ends failed with the hash set,
\* the cache-hit branch ends cached
Incremented(st) ==
    {i \in Ids : /\ tasks[i].pc = "done"
                 /\ tasks[i].outcome.kind = "result"
                 /\ tasks[i].outcome.res.status = st
                 /\ tasks[i].hash # None}

\* C12: no increment of a counter is lost: during and after the first batch,
\* under every interleaving, each counter equals the number of pipelines that
\* have executed its increment.
C12_NoLostUpdate ==
    (FirstCall /\ paths # <<>>)
        => /\ stats.successful = Cardinality(Incremented(COMPLETED))
           /\ stats.failed = Cardinality(Incremented(FAILED))
           /\ stats.cached = Cardinality(Incremented(CACHED))
           /\ stats.total_processed =
                  Cardinality(Incremented(COMPLETED)) + Cardinality(Incremented(FAILED))

C12_Witness ==
    /\ BatchReturned /\ FirstCall
    /\ order = <<2, 1>>
    /\ stats.successful = 2

\* pipeline i reads its cache file in this step
ReadsCache(i) ==
    /\ i \in Ids /\ i \in DOMAIN tasks'
    /\ tasks[i].pc = "cache_read" /\ tasks'[i].pc # "cache_read"

\* C13: a pipeline that looks up the cache file of a hash while another
\* pipeline of the batch stores, or has stored, the entry of that hash reads
\* either no file or the complete entry, never a partly written one.
C13_ReadSound ==
    \A i \in TaskIds :
        ReadsCache(i) => \/ ~cache[tasks[i].hash].exists
                         \/ cache[tasks[i].hash].json

C13_NoPartialEntry == [][C13_ReadSound]_vars

\* C14: when the cache file of the document exists at the lookup but cannot be
\* read back at the read (it is empty, or is not JSON, or was removed in
\* between), process_file does not end there: no result, no exception, no
\* counter changes, and the next thing it does is call the extraction service.
C14_StepOk ==
    \A i \in TaskIds :
        (ReadsCache(i) /\ ~(cache[tasks[i].hash].exists /\ cache[tasks[i].hash].json))
            => /\ tasks'[i].pc = "api"
               /\ tasks'[i].outcome = NoOutcome
               /\ ApiCalls(tasks'[i]) = 1
               /\ stats' = stats

C14_UnreadableEntryIsAbsent == [][C14_StepOk]_vars

\* the entry was removed between the check and the read, and the extraction
\* service was then called and answered
C14_Witness ==
    \E i \in Ids :
        /\ tasks[i].ops = <<"validate", "hash", "cache_exists", "cache_read", "api",
                          "cache_write">>
        /\ returned.kind = "result"
        /\ returned.list[1].status = COMPLETED
        /\ launched = 1
        /\ stats.cached = 0
        /\ cache["sha256:X"] = EmptyFile

\* pipeline i leaves the write of its cache file in this step
WritesCache(i) ==
    /\ i \in Ids /\ i \in DOMAIN tasks'
    /\ tasks[i].pc = "cache_write" /\ tasks'[i].pc # "cache_write"

\* C15: when the write of the cache entry fails after a successful extraction
\* (the file holds no entry afterwards), process_file still ends completed
\* with the extracted text, and successful and total_processed each grow by one.
C15_StepOk ==
    \A i \in TaskIds :
        (WritesCache(i) /\ ~cache'[tasks[i].hash].json)
            => /\ tasks'[i].pc = "done"
               /\ tasks'[i].outcome.kind = "result"
               /\ tasks'[i].outcome.res.status = COMPLETED
               /\ tasks'[i].outcome.res.text = OcrText(FileBytes(tasks[i].path))
               /\ tasks'[i].outcome.res.error_message = None
               /\ stats'.successful = stats.successful + 1
               /\ stats'.total_processed = stats.total_processed + 1
               /\ stats'.failed = stats.failed
               /\ stats'.cached = stats.cached

C15_WriteFailureTolerated == [][C15_StepOk]_vars

C15_Witness ==
    \E i \in Ids :
        /\ tasks[i].pc = "done"
        /\ tasks[i].ops[Len(tasks[i].ops)] = "cache_write"
        /\ cache[tasks[i].hash] = EmptyFile
        /\ tasks[i].outcome.res.status = COMPLETED
        /\ phase = "idle"
        /\ stats.successful = 1

\* C16: with caching enabled, when the cache file of the document's hash is
\* readable at the read, process_file returns that entry with status cached,
\* cached grows by one, the extraction service is not called, and the cache
\* file and the other three counters stay as they were.
C16_StepOk ==
    \A i \in TaskIds :
        (ReadsCache(i) /\ cache[tasks[i].hash].exists /\ cache[tasks[i].hash].json)
            => /\ useCache
               /\ tasks'[i].pc = "done"
               /\ tasks'[i].outcome.kind = "result"
               /\ tasks'[i].outcome.res =
                      [cache[tasks[i].hash].doc EXCEPT !.status = CACHED]
               /\ ApiCalls(tasks'[i]) = 0
               /\ cache' = cache
               /\ stats' = [stats EXCEPT !.cached = @ + 1]

C16_CacheHit == [][C16_StepOk]_vars

C16_Witness ==
    /\ BatchReturned
    /\ Len(returned.list) = 2
    /\ \A n \in 1..2 : /\ returned.list[n].status = CACHED
                       /\ returned.list[n].text = "old text"
    /\ stats = [total_processed |-> 0, successful |-> 0, failed |-> 0, cached |-> 2]

\* pipeline i ends in this step
Ends(i) ==
    /\ i \in Ids /\ i \in DOMAIN tasks'
    /\ tasks[i].pc # "done" /\ tasks'[i].pc = "done"

\* a pipeline that ended failed, or by raising
EndedFailed(t) ==
    /\ t.pc = "done"
    /\ \/ t.outcome.kind = "raise"
       \/ t.outcome.kind = "result" /\ t.outcome.res.status = FAILED

C17_StateOk ==
    /\ \A t \in Pipeline :
           EndedFailed(t) => \A n \in 1..Len(t.ops) : t.ops[n] # "cache_write"
    /\ \A h \in DOMAIN cache :
           cache[h].json => cache[h].doc.status \notin {FAILED, "failed"}

C17_StepOk ==
    /\ cache' # cache =>
           \E i \in TaskIds :
               /\ WritesCache(i)
               /\ tasks[i].text = OcrText(FileBytes(tasks[i].path))
               /\ \A h \in DOMAIN cache : h # tasks[i].hash => cache'[h] = cache[h]
    /\ \A i \in TaskIds : (Ends(i) /\ EndedFailed(tasks'[i])) => cache' = cache

\* C17: a cache file is created or changed only by a pipeline that has got
\* the text from the extraction service, and only for its own hash; a call
\* that ends failed, by validation or after the retries, or that raises, has
\* written no cache file, and no cache file holds a failed result.
C17_CacheOnlyAfterSuccess == [](C17_StateOk) /\ [][C17_StepOk]_vars

C17_Witness ==
    \E i \in Ids :
        /\ Exhausted(tasks[i])
        /\ useCache
        /\ phase = "idle"
        /\ returned.kind \in {"result", "list"}
        /\ returned.list[i].status = FAILED
        /\ cache[tasks[i].hash] = NoFile

\* C18: a submission of more than 10 files is answered with the admission
\* error and nothing else happens for it: no temporary file is created and
\* process_batch is not called; a submission of exactly 10 files is never
\* answered with the admission error.
C18_Admission ==
    /\ Len(files) > 10 =>
           /\ serverPc = "ended"
           /\ response.status_code = 400
           /\ response.detail = "Maximum 10 files allowed per batch"
           /\ tmp_paths = <<>> /\ tempFiles = {} /\ batchResults = <<>>
    /\ Len(files) = 10 =>
           response.detail # "Maximum 10 files allowed per batch"

C18_Witness ==
    /\ Len(files) = 11
    /\ serverPc = "ended"
    /\ response.status_code = 400

\* C19: a submission within the size limit is never rejected as a whole: the
\* request ends with a success response that carries one result per
\* submitted file, also when one file declares an unsupported type.
C19_OnlySizeRejects ==
    (serverPc = "ended" /\ Len(files) <= 10)
        => /\ response.status_code = 200
           /\ Len(response.results) = Len(files)

\* the results handed to a caller: by a finished pipeline, and by the last
\* finished call
HandedOut ==
    {t.outcome.res : t \in {u \in Pipeline : u.pc = "done" /\ u.outcome.kind = "result"}}
        \cup {returned.list[n] : n \in 1..Len(returned.list)}

\* C20: in every result process_file or process_batch returns, status failed
\* comes with an empty text and an error message that is set (a string, which
\* may be the empty str(e) of an exception without message), and status
\* completed or cached comes with no error message (None).
C20_ResultShape ==
    \A r \in HandedOut :
        /\ r.status \in {COMPLETED, FAILED, CACHED}
        /\ r.status = FAILED => r.text = "" /\ r.error_message # None
        /\ r.status \in {COMPLETED, CACHED} => r.error_message = None

C20_Witness ==
    /\ BatchReturned
    /\ Len(returned.list) = 2
    /\ returned.list[1].status = FAILED
    /\ returned.list[1].error_message = ""
    /\ returned.list[2].status = COMPLETED

\* C21: every result process_file or process_batch returns (which is what the
\* command line hands to export_results) has status completed, failed or
\* cached, and every result stored in a cache file has one of these three
\* statuses; pending and processing appear in none of them.
C21_FinalStatusOnly ==
    /\ \A r \in HandedOut : r.status \in {COMPLETED, FAILED, CACHED}
    /\ \A h \in DOMAIN cache :
           cache[h].json =>
               cache[h].doc.status \in {"completed", "failed", "cached",
                                        COMPLETED, FAILED, CACHED}

C21_Witness ==
    /\ BatchReturned
    /\ Len(returned.list) = 2
    /\ returned.list[1].status = CACHED
    /\ returned.list[2].status = FAILED
    /\ cache["sha256:X"].json

\* the validator has run in pipeline t and returned false
Rejected(t) == t.pc = "done" /\ t.ops = <<"validate">>

\* the validator has run in pipeline t and returned true
Accepted(t) == Len(t.ops) >= 2 /\ t.ops[1] = "validate" /\ t.ops[2] = "hash"

C22_StateOk ==
    \A t \in Pipeline :
        LET p == t.path
            bad == \/ ~FileExists(p)
                   \/ FileSize(p) > 50 * 1024 * 1024
                   \/ GuessType(p) \notin {"application/pdf", "image/png", "image/jpeg"}
        IN  /\ Rejected(t) => bad
            /\ Accepted(t) => ~bad
            /\ t.pc # "created" => Rejected(t) \/ Accepted(t)

\* the step of a pipeline in which the validator runs changes no counter and
\* no cache file
C22_StepOk ==
    \A i \in TaskIds :
        (i \in Ids /\ i \in DOMAIN tasks' /\ tasks[i].pc = "created"
           /\ tasks'[i].pc # "created")
            => stats' = stats /\ cache' = cache

\* C22: the validator returns false exactly when the file does not exist, or
\* is larger than 50 MiB, or has a MIME type other than pdf, png, jpeg, and
\* true otherwise (so for a supported file of exactly 50 MiB); it changes no
\* counter and no cache file.
C22_Validator == [](C22_StateOk) /\ [][C22_StepOk]_vars

C22_Witness ==
    \E t \in Pipeline :
        /\ t.path = "exact.pdf"
        /\ FileSize(t.path) = 52428800
        /\ Accepted(t)
        /\ t.pc = "done"
        /\ t.outcome.res.status = COMPLETED

\* a call of clear_cache takes place in this step
ClearsCache ==
    /\ call'.fn = "clear_cache"
    /\ \/ call' # call
       \/ \E h \in DOMAIN cache : cache[h].exists /\ ~cache'[h].exists

\* C23: clear_cache(d) removes exactly the cache files last modified more
\* than d days before the call, returns how many it removed, and leaves every
\* other file as it was, so that a later lookup of a younger entry still hits.
C23_StepOk ==
    ClearsCache =>
        LET d == call'.arg
            older == {h \in DOMAIN cache :
                         cache[h].exists /\ cache[h].age > d * 24 * 60 * 60}
        IN  /\ \A h \in older : ~cache'[h].exists
            /\ \A h \in DOMAIN cache \ older : cache'[h] = cache[h]
            /\ call'.out = Cardinality(older)

C23_ClearCache == [][C23_StepOk]_vars

C23_Witness ==
    /\ call = Called("clear_cache", 30, 1)
    /\ cache["sha256:E"] = NoFile
    /\ cache["sha256:X"] = SeededEntry("sha256:X", YoungAge)
    /\ phase = "idle"
    /\ returned.kind = "result"
    /\ returned.list[1].status = CACHED

\* get_statistics returns in this step
GetsStatistics == call'.fn = "get_statistics" /\ call' # call

\* C24: get_statistics returns the four counters as they are, with
\* success_rate = 100 * successful / max(total_processed, 1) and
\* cache_hit_rate = 100 * cached / max(total_processed, 1); no division by
\* zero takes place, and with all counters 0 both rates are 0.
C24_StepOk ==
    GetsStatistics =>
        LET out == call'.out
            m == IF stats.total_processed >= 1 THEN stats.total_processed ELSE 1
        IN  /\ out.total_processed = stats.total_processed
            /\ out.successful = stats.successful
            /\ out.failed = stats.failed
            /\ out.cached = stats.cached
            /\ out.success_rate.den # 0
            /\ out.cache_hit_rate.den # 0
            /\ out.success_rate.num * m = 100 * stats.successful * out.success_rate.den
            /\ out.cache_hit_rate.num * m = 100 * stats.cached * out.cache_hit_rate.den
            /\ (stats.total_processed = 0 /\ stats.successful = 0 /\ stats.cached = 0)
                   => out.success_rate.num = 0 /\ out.cache_hit_rate.num = 0
        /\ stats' = stats

----------------------------------------------------------------------------
\* Reports

Exports == call.fn = "export_results"

\* C25: in every export format the report shows the error message of each
\* failed record and the extracted text of each completed or cached record
C25_ReportShowsRecords ==
    Exports =>
        \A i \in DOMAIN call.arg.results :
            LET r == call.arg.results[i]
            IN  /\ call.out.kind = "content"
                /\ r.status = FAILED => call.out.records[i].error = r.error_message
                /\ r.status \in {COMPLETED, CACHED} =>
                      call.out.records[i].text = r.text

----------------------------------------------------------------------------
\* Cache key

\* the digest of the bytes of the document of pipeline i
ContentDigest(i) == Sha256(FileBytes(tasks[i].path))

\* pipeline i went past validation and hashing with caching enabled, and ended
Looked(i) == Done(i) /\ useCache /\ tasks[i].hash # None

\* C26: the cache is keyed by content hash only: when a readable entry exists
\* for the bytes of the document, process_file with caching enabled returns
\* that entry's result, whatever the file's name and whatever the options of
\* the call, so calls that differ only in name or options get the same text.
C26_KeyedByContent ==
    \A i \in Ids :
        (Looked(i) /\ cache[ContentDigest(i)].exists /\ cache[ContentDigest(i)].json)
            => /\ tasks[i].outcome.kind = "result"
               /\ tasks[i].outcome.res =
                      [cache[ContentDigest(i)].doc EXCEPT !.status = CACHED]

\* C26 as first stated, for every call of process_file that ended, with
\* caching enabled or not and with a name that passes validation or not
C26_EveryCall ==
    \A i \in Ids :
        (Done(i) /\ FileReadable(tasks[i].path)
         /\ cache[ContentDigest(i)].exists /\ cache[ContentDigest(i)].json)
            => /\ tasks[i].outcome.kind = "result"
               /\ tasks[i].outcome.res =
                      [cache[ContentDigest(i)].doc EXCEPT !.status = CACHED]

\* copy.pdf, processed with options, got the entry stored for orig.pdf
C26_Witness ==
    /\ phase = "single" /\ Looked(1)
    /\ tasks[1].path = "copy.pdf"
    /\ tasks[1].options # None
    /\ tasks[1].outcome.kind = "result"
    /\ tasks[1].outcome.res.status = CACHED
    /\ tasks[1].outcome.res.file_name = "orig.pdf"
    /\ tasks[1].outcome.res.text = "old text"
    /\ tasks[1].outcome.res.processing_options = "{}"

\* C27: the content hash is deterministic: documents with the same bytes get
\* the same digest whatever their name or path, and the cache path of a
\* digest is the cache directory joined with the digest plus ".json".
C27_HashAndPath ==
    \A i \in Ids :
        tasks[i].hash # None
            => /\ tasks[i].cache_path = CacheDir \o "/" \o tasks[i].hash \o ".json"
               /\ \A j \in Ids :
                     (tasks[j].hash # None
                      /\ FileBytes(tasks[j].path) = FileBytes(tasks[i].path))
                         => tasks[j].hash = tasks[i].hash

\* a.pdf and copy.pdf of one batch, hashed to the same digest
C27_Witness ==
    /\ phase = "batch"
    /\ \E i, j \in Ids :
          /\ tasks[i].path = "a.pdf" /\ tasks[j].path = "copy.pdf"
          /\ tasks[i].hash = "sha256:X" /\ tasks[j].hash = "sha256:X"
          /\ tasks[i].cache_path = "ocr_cache/sha256:X.json"
          /\ tasks[j].cache_path = tasks[i].cache_path

----------------------------------------------------------------------------
\* Language detection

\* the extraction service answered pipeline i with a text
Extracted(i) == tasks[i].text # None

\* the detector was called on the text of pipeline i
DetectorInvoked(i) == \E n \in 1..Len(tasks[i].ops) : tasks[i].ops[n] = "detect"

\* C28: after a successful extraction, language detection never fails the
\* document: a text shorter than 10 characters once stripped gives language
\* unknown without the detector being invoked, a detector exception gives
\* language unknown, and in both cases the result has status completed.
C28_DetectionNeverFails ==
    \A i \in Ids :
        Extracted(i) =>
            /\ Len(Strip(tasks[i].text)) < 10
                  => tasks[i].language = "unknown" /\ ~DetectorInvoked(i)
            /\ DetectorRaises(tasks[i].text) => tasks[i].language = "unknown"
            /\ (Done(i) /\ (Len(Strip(tasks[i].text)) < 10
                             \/ DetectorRaises(tasks[i].text)))
                  => /\ tasks[i].outcome.kind = "result"
                     /\ tasks[i].outcome.res.status = COMPLETED
                     /\ tasks[i].outcome.res.language = "unknown"
                     /\ tasks[i].outcome.res.text = tasks[i].text

\* photo.jpg: the detector was called on a text of digits, raised, and the
\* document completed
C28_Witness ==
    /\ phase = "single" /\ Done(1)
    /\ tasks[1].path = "photo.jpg"
    /\ tasks[1].text = "1234567890123"
    /\ DetectorInvoked(1)
    /\ tasks[1].outcome.kind = "result"
    /\ tasks[1].outcome.res.status = COMPLETED
    /\ tasks[1].outcome.res.language = "unknown"

----------------------------------------------------------------------------
\* Counters over the lifetime of the processor

\* export_results returns, or raises, in this step
ExportsResults == call'.fn = "export_results" /\ call' # call

\* C29: over the lifetime of one processor the four counters never decrease
\* and are never reset: every operation leaves a counter unchanged or
\* increases it by one, and clear_cache, get_statistics and export_results
\* leave all four counters unchanged.
C29_StepOk ==
    /\ \A k \in DOMAIN stats : stats'[k] = stats[k] \/ stats'[k] = stats[k] + 1
    /\ (ClearsCache \/ GetsStatistics \/ ExportsResults) => stats' = stats

C29_CountersOnlyGrow == [][C29_StepOk]_vars

\* a cache hit, then a successful extraction after the cache was cleared, and
\* the counters still hold both when the results are exported
C29_Witness ==
    /\ call.fn = "export_results"
    /\ stats = [total_processed |-> 1, successful |-> 1, failed |-> 0, cached |-> 1]
    /\ \A h \in DOMAIN cache : cache[h] # SeededEntry(h, YoungAge)
    /\ phase = "idle"

----------------------------------------------------------------------------
\* Caching disabled

\* process_file(p, use_cache = False) is under way, or has just ended
Uncached == phase = "single" /\ ~useCache

CacheOps == {"cache_exists", "cache_read", "cache_write"}

\* C30: with use_cache = false, process_file neither reads nor writes any
\* cache entry and never increases the cached counter, even when a readable
\* entry for the document's hash exists; a document that got its hash is
\* always sent to the extraction service.
C30_StateOk ==
    Uncached =>
        /\ \A n \in 1..Len(tasks[1].ops) : tasks[1].ops[n] \notin CacheOps
        /\ tasks[1].pc \notin {"cache_read", "cache_write"}
        /\ (Done(1) /\ tasks[1].hash # None) => ApiCalls(tasks[1]) >= 1
        /\ (Done(1) /\ tasks[1].outcome.kind = "result")
              => tasks[1].outcome.res.status # CACHED

C30_StepOk == Uncached => (cache' = cache /\ stats'.cached = stats.cached)

C30_NoCacheUse == []C30_StateOk /\ [][C30_StepOk]_vars

\* a.pdf was extracted anew although the entry of its hash is readable
C30_Witness ==
    /\ Uncached /\ Done(1)
    /\ tasks[1].path = "a.pdf"
    /\ cache[tasks[1].hash].exists /\ cache[tasks[1].hash].json
    /\ ApiCalls(tasks[1]) = 1
    /\ tasks[1].outcome.res.status = COMPLETED
    /\ tasks[1].outcome.res.text = "text of X"
    /\ stats.cached = 0

----------------------------------------------------------------------------
\* Counters between the steps of concurrent pipelines

\* C31: in every state another task or caller can observe, before, between
\* and after any calls and under any interleaving of concurrent pipelines,
\* total_processed = successful + failed.
C31_TotalIsSum == stats.total_processed = stats.successful + stats.failed

\* a batch of two between two steps: one pipeline ended in failure and was
\* counted while the other is still under way
C31_Witness ==
    /\ phase = "batch"
    /\ \E i, j \in Ids : Done(i) /\ InFlight(j)
    /\ stats.successful = 0 /\ stats.failed = 1 /\ stats.total_processed = 1

----------------------------------------------------------------------------
\* Slots of a batch

\* the slots of the semaphore that are free are those no pipeline under way holds
SlotsAccounted ==
    phase = "batch"
        => semValue = maxConcurrent - Cardinality({i \in Ids : InFlight(i)})

Waiting(i) == i \in Ids /\ tasks[i].pc = "created"
GotSlot(i) == i \in Ids /\ tasks[i].pc # "created"

\* C32: in process_batch with max_concurrent >= 1 the slot of a pipeline is
\* released whenever the pipeline ends, by a result or by an exception; so,
\* every extraction call eventually returning or raising, every document of
\* the batch eventually gets a slot and the batch eventually returns.
C32_SlotsComeBack ==
    /\ []SlotsAccounted
    /\ \A i \in TaskIds :
          (phase = "batch" /\ maxConcurrent >= 1 /\ Waiting(i)) ~> GotSlot(i)
    /\ (phase = "batch" /\ maxConcurrent >= 1) ~> BatchReturned

\* one slot for two documents: the first one raised, its slot went to the
\* second one, and the batch returned both results
C32_Witness ==
    /\ BatchReturned
    /\ maxConcurrent = 1
    /\ paths = <<"locked.pdf", "a.pdf">>
    /\ tasks[1].outcome.kind = "raise"
    /\ tasks[2].outcome.kind = "result"
    /\ semValue = 1
    /\ Len(returned.list) = 2

\* C33: process_batch on a non-empty batch eventually returns for every
\* non-negative max_concurrent the caller passes, 0 included, every
\* extraction call eventually returning or raising.
C33_BatchReturns == (phase = "batch" /\ maxConcurrent >= 0) ~> BatchReturned

----------------------------------------------------------------------------
\* Identical documents in one batch

\* the cache directory held no entry when the processor started: an entry
\* present at the start is never removed or rewritten by process_file
StartedEmpty == \A h \in DOMAIN cache : cache[h] # OldEntry(h)

\* C34: with caching enabled and an initially empty cache, a batch holding
\* two documents with the same bytes calls the extraction service
\* successfully for at most one of them; the other is served from the cache.
C34_OneExtraction ==
    \A i, j \in Ids :
        (phase = "batch" /\ StartedEmpty /\ i # j
         /\ FileBytes(tasks[i].path) = FileBytes(tasks[j].path))
            => ~(Extracted(i) /\ Extracted(j))

----------------------------------------------------------------------------
\* Range of the rates

\* the fraction q lies between 0 and 100
Percentage(q) == q # ZeroDivisionError /\ q.num >= 0 /\ q.num <= 100 * q.den

\* C35: after any sequence of calls of the processor, both rates of the
\* statistics snapshot are percentages: 0 <= success_rate <= 100 and
\* 0 <= cache_hit_rate <= 100.
C35_RatesArePercentages ==
    call.fn = "get_statistics"
        => Percentage(call.out.success_rate) /\ Percentage(call.out.cache_hit_rate)

----------------------------------------------------------------------------
\* The batch command

\* pipeline i went through the operation op
Did(i, op) == \E n \in 1..Len(tasks[i].ops) : tasks[i].ops[n] = op

\* the batch command is under way
BatchCommandRuns == phase = "batch" /\ call.fn = "batch"

----------------------------------------------------------------------------
\* Export of finished results

\* C37: export_results returns report content without raising for each of the
\* four formats and for every list of finished results, the empty list and
\* lists holding completed, failed and cached results included.
C37_ExportNeverRaises == Exports => call.out.kind = "content"

----------------------------------------------------------------------------
\* Temporary files of a request

\* C38: for the single and the batch entry point, every temporary file the
\* request created for an uploaded document has been deleted by the time the
\* request ends, whether processing succeeded, returned failed results,
\* raised, or the request was rejected part-way through saving the uploads.
C38_NoTempFileLeft == serverPc = "ended" => tempFiles = {}

====
